---- MODULE Spec2Model ----
(***************************************************************************)
(* Model of zk_bridge_events_snapshot (src/app.py): one invocation of      *)
(* main(), which resolves a block range against the chain tip, asks the    *)
(* RPC node for the logs of that range, truncates, normalizes and sorts    *)
(* them, and commits to the sorted sequence with a Keccak hash.            *)
(*                                                                         *)
(* Every RPC round trip is a separate action, because the node's tip may   *)
(* move between two of them; the local computation that follows a round    *)
(* trip belongs to the same action.                                        *)
(*                                                                         *)
(* Conventions: a Python value that may be None is a sequence of length    *)
(* zero (None) or one (the value); bytes are sequences of 0..255; strings  *)
(* are sequences of character codes, compared as Python compares str.      *)
(* Wall-clock fields (elapsedSec, generatedAtUtc) and the stderr output    *)
(* are not modelled.                                                       *)
(***************************************************************************)
EXTENDS Integers, Sequences, FiniteSets, TLC

\* ---------------------------------------------------------------- bounds
MaxTip == 2        \* chain tips range over 0..MaxTip
MaxBatch == 3      \* the node answers get_logs with at most MaxBatch records
MaxBlocksArg == 2  \* --blocks ranges over 0..MaxBlocksArg
MaxMaxLogs == 2    \* --max-logs ranges over 0..MaxMaxLogs

None == <<>>
Some(v) == <<v>>
Val(o) == o[1]
IsNone(o) == o = <<>>

Min(a, b) == IF a < b THEN a ELSE b
Max(a, b) == IF a > b THEN a ELSE b

\* ------------------------------------------------------- hex conversion
\* One lowercase hexadecimal digit, as a character code ('0'..'9','a'..'f').
HexDigit(n) == IF n < 10 THEN 48 + n ELSE 87 + n

RECURSIVE HexOfBytes(_)
HexOfBytes(b) ==
    IF b = <<>> THEN <<>>
    ELSE <<HexDigit(Head(b) \div 16), HexDigit(Head(b) % 16)>> \o HexOfBytes(Tail(b))

\* Web3.to_hex on a bytes value: "0x" followed by two digits per byte.
ToHex(b) == <<48, 120>> \o HexOfBytes(b)

\* Python's < on str: lexicographic on code points, a proper prefix is smaller.
RECURSIVE StrLess(_, _)
StrLess(a, b) ==
    IF b = <<>> THEN FALSE
    ELSE IF a = <<>> THEN TRUE
    ELSE IF Head(a) < Head(b) THEN TRUE
    ELSE IF Head(a) > Head(b) THEN FALSE
    ELSE StrLess(Tail(a), Tail(b))

\* ------------------------------------------------------ the node's logs
TopicA == <<221>>
TopicB == <<17>>

RawLog(bn, txh, idx, data, topic) ==
    [blockNumber |-> bn, transactionHash |-> txh, logIndex |-> idx,
     data |-> data, topics |-> <<topic>>]

\* The logs an RPC node may hold for the contract.  LogD and LogE carry the
\* same (blockNumber, transactionHash, logIndex) with different data: the
\* program takes the response as it comes and checks no uniqueness.
LogA == RawLog(2, <<171>>, 1, <<1>>, TopicA)
LogB == RawLog(1, <<187>>, 0, <<>>, TopicA)
LogC == RawLog(2, <<171>>, 0, <<2>>, TopicB)
LogD == RawLog(2, <<10>>, 2, <<1>>, TopicA)
LogE == RawLog(2, <<10>>, 2, <<2>>, TopicA)
NodeLogs == {LogA, LogB, LogC, LogD, LogE}
SmallChain == {LogA, LogB}

\* All orderings of at most MaxBatch distinct members of S.
Batches(S) ==
    UNION { { s \in [1..n -> S] : \A i, j \in 1..n : i # j => s[i] # s[j] }
            : n \in 0..MaxBatch }

\* -------------------------------------------------------- RangeResolver
\* Variant: a missing toBlock is derived from fromBlock and --blocks.
ResolveRangeWidth(a, t) ==
    IF IsNone(a.from_block) /\ IsNone(a.to_block)
    THEN [from_block |-> Max(0, t - a.blocks + 1), to_block |-> t]
    ELSE IF IsNone(a.to_block)
    THEN [from_block |-> Val(a.from_block),
          to_block |-> Val(a.from_block) + a.blocks - 1]
    ELSE [from_block |-> IF IsNone(a.from_block)
                         THEN Max(0, Val(a.to_block) - a.blocks + 1)
                         ELSE Val(a.from_block),
          to_block |-> Val(a.to_block)]

\* main(): the range resolved from the optional bounds, --blocks and the tip
\* main() has read.
ResolveRange(a, t) ==
    IF IsNone(a.from_block) /\ IsNone(a.to_block)
    THEN [from_block |-> Max(0, t - a.blocks + 1), to_block |-> t]
    ELSE LET tb == IF IsNone(a.to_block) THEN t ELSE Val(a.to_block)
         IN  [from_block |-> IF IsNone(a.from_block)
                             THEN Max(0, tb - a.blocks + 1)
                             ELSE Val(a.from_block),
              to_block |-> tb]

\* fetch_logs(): an inverted range is swapped on entry.
SwapIfInverted(fb, tb) ==
    IF fb > tb THEN [from_block |-> tb, to_block |-> fb]
    ELSE [from_block |-> fb, to_block |-> tb]

\* Variant: the clamp takes the larger of the two.
ClampToBlockMax(tb, lt) == Max(tb, lt)

\* fetch_logs(): to_block = min(to_block, latest).
ClampToBlock(tb, lt) == Min(tb, lt)

\* fetch_logs(): the filter handed to get_logs; swap first, clamp second.
BuildParams(fb, tb, lt, topic0) ==
    LET r == SwapIfInverted(fb, tb)
    IN  [fromBlock |-> r.from_block,
         toBlock |-> ClampToBlock(r.to_block, lt),
         topics |-> topic0]

\* The node's side of get_logs: the logs of the contract within the filter's
\* block range that carry the filter's topic0, if one is given.
Matching(ch, p) ==
    { lg \in ch : /\ p.fromBlock <= lg.blockNumber
                  /\ lg.blockNumber <= p.toBlock
                  /\ (IsNone(p.topics) \/ ToHex(lg.topics[1]) = Val(p.topics)) }

\* ------------------------------------------------- truncation, normalizer
\* Variant: the last max_logs records are kept, logs_raw[-max_logs:].
TruncateTail(logs_raw, max_logs) ==
    IF max_logs > 0 /\ Len(logs_raw) > max_logs
    THEN SubSeq(logs_raw, Len(logs_raw) - max_logs + 1, Len(logs_raw))
    ELSE logs_raw

\* logs_raw[:max_logs] when max_logs > 0 and the response is longer.
Truncate(logs_raw, max_logs) ==
    IF max_logs > 0 /\ Len(logs_raw) > max_logs
    THEN SubSeq(logs_raw, 1, max_logs)
    ELSE logs_raw

\* The dictionary appended for one raw log.
Normalize(lg) ==
    [blockNumber |-> lg.blockNumber,
     transactionHash |-> ToHex(lg.transactionHash),
     logIndex |-> lg.logIndex,
     data |-> ToHex(lg.data),
     topics |-> [i \in 1..Len(lg.topics) |-> ToHex(lg.topics[i])]]

NormalizeAll(logs_raw) == [i \in 1..Len(logs_raw) |-> Normalize(logs_raw[i])]

\* tx_set after the loop.
TxSet(logs_raw) == { ToHex(logs_raw[i].transactionHash) : i \in 1..Len(logs_raw) }

\* Variant: the first record's block is taken for the minimum.
MinBlockSeenFirst(logs_raw) ==
    IF logs_raw = <<>> THEN None ELSE Some(logs_raw[1].blockNumber)

\* min_block_seen / max_block_seen after the loop: None for an empty list.
RECURSIVE MinBlockSeen(_)
MinBlockSeen(logs_raw) ==
    IF logs_raw = <<>> THEN None
    ELSE LET rest == MinBlockSeen(SubSeq(logs_raw, 1, Len(logs_raw) - 1))
             bn == logs_raw[Len(logs_raw)].blockNumber
         IN  IF IsNone(rest) \/ bn < Val(rest) THEN Some(bn) ELSE rest

RECURSIVE MaxBlockSeen(_)
MaxBlockSeen(logs_raw) ==
    IF logs_raw = <<>> THEN None
    ELSE LET rest == MaxBlockSeen(SubSeq(logs_raw, 1, Len(logs_raw) - 1))
             bn == logs_raw[Len(logs_raw)].blockNumber
         IN  IF IsNone(rest) \/ bn > Val(rest) THEN Some(bn) ELSE rest

\* ------------------------------------------------------- CanonicalSorter
\* Variant: the sort key lacks logIndex.
KeyLessNoLogIndex(x, y) ==
    \/ x.blockNumber < y.blockNumber
    \/ /\ x.blockNumber = y.blockNumber
       /\ StrLess(x.transactionHash, y.transactionHash)

\* Python's < on the key tuples (blockNumber, transactionHash, logIndex).
KeyLess(x, y) ==
    \/ x.blockNumber < y.blockNumber
    \/ /\ x.blockNumber = y.blockNumber
       /\ \/ StrLess(x.transactionHash, y.transactionHash)
          \/ /\ x.transactionHash = y.transactionHash
             /\ x.logIndex < y.logIndex

\* Variant: an element is placed before the elements equal to it.
RECURSIVE InsertBeforeEqual(_, _)
InsertBeforeEqual(sorted, x) ==
    IF sorted = <<>> THEN <<x>>
    ELSE IF ~KeyLess(Head(sorted), x) THEN <<x>> \o sorted
    ELSE <<Head(sorted)>> \o InsertBeforeEqual(Tail(sorted), x)

\* list.sort() is stable: an element is placed after every element that is
\* not greater than it.
RECURSIVE Insert(_, _)
Insert(sorted, x) ==
    IF sorted = <<>> THEN <<x>>
    ELSE IF KeyLess(x, Head(sorted)) THEN <<x>> \o sorted
    ELSE <<Head(sorted)>> \o Insert(Tail(sorted), x)

RECURSIVE SortFrom(_, _)
SortFrom(sorted, rest) ==
    IF rest = <<>> THEN sorted
    ELSE SortFrom(Insert(sorted, Head(rest)), Tail(rest))

SortLogs(logs) == SortFrom(<<>>, logs)

\* ------------------------------------------- CanonicalEncoder and hasher
\* json.dumps(..., sort_keys=True, separators=(",", ":")): every record is
\* written with its keys in lexicographic order and no whitespace.
EncodeRecord(r) ==
    << <<"blockNumber", r.blockNumber>>, <<"data", r.data>>,
       <<"logIndex", r.logIndex>>, <<"topics", r.topics>>,
       <<"transactionHash", r.transactionHash>> >>

Encode(logs) == [i \in 1..Len(logs) |-> EncodeRecord(logs[i])]

\* Web3.keccak(...).hex(): the digest stands for its preimage (no collisions).
Keccak(encoded) == <<"keccak", encoded>>

\* Variant: json.dumps without sort_keys, the keys in insertion order.
CommitmentUnsortedKeys(logs) ==
    Keccak([i \in 1..Len(logs) |->
              << <<"blockNumber", logs[i].blockNumber>>,
                 <<"transactionHash", logs[i].transactionHash>>,
                 <<"logIndex", logs[i].logIndex>>,
                 <<"data", logs[i].data>>,
                 <<"topics", logs[i].topics>> >>])

Commitment(logs) == Keccak(Encode(logs))

\* ----------------------------------------------------- SnapshotAssembler
\* fetch_logs() from the node's response to the returned snapshot.
BuildSnapshot(p, response, max_logs, topic0) ==
    LET logs_raw == Truncate(response, max_logs)
        logs == SortLogs(NormalizeAll(logs_raw))
        mn == MinBlockSeen(logs_raw)
        mx == MaxBlockSeen(logs_raw)
    IN  [meta |-> [fromBlockRequested |-> p.fromBlock,
                   toBlockRequested |-> p.toBlock,
                   fromBlockEffective |-> IF IsNone(mn) THEN p.fromBlock ELSE Val(mn),
                   toBlockEffective |-> IF IsNone(mx) THEN p.toBlock ELSE Val(mx),
                   logCount |-> Len(logs),
                   uniqueTxCount |-> Cardinality(TxSet(logs_raw)),
                   maxLogs |-> max_logs,
                   topic0Filter |-> topic0,
                   commitmentKeccak |-> Commitment(logs)],
         logs |-> logs]

\* ------------------------------------------------------------ the state
VARIABLES
    pc,          \* position of main()
    args,        \* the parsed command line
    chainTip,    \* the node's current block number
    chain,       \* the logs the node holds for the contract
    connTip,     \* tip read by connect(), only printed
    tip,         \* tip read by main()
    from_block,  \* main()'s from_block
    to_block,    \* main()'s to_block
    latest,      \* tip read by fetch_logs()
    params,      \* the filter passed to get_logs
    received,    \* logs_raw as returned by the node
    snapshot,    \* the value returned by fetch_logs()
    payload      \* the document printed by main()

vars == <<pc, args, chainTip, chain, connTip, tip, from_block, to_block,
          latest, params, received, snapshot, payload>>

\* ------------------------------------------------------- initial states
Absent == [unset |-> TRUE]   \* a local that has not been assigned yet

Tips == 0..MaxTip
OptBlocks == {None} \cup { Some(b) : b \in 0..(MaxTip + 1) }

\* parse_args(): every combination of the options that matter.
ArgSpace ==
    [from_block : OptBlocks, to_block : OptBlocks, blocks : 0..MaxBlocksArg,
     max_logs : 0..MaxMaxLogs, topic0 : {None}, address_ok : BOOLEAN]

\* Command lines over a full node: explicit ranges that cover the node's
\* logs, with and without a topic filter.
ArgSpaceLogs ==
    [from_block : {None, Some(0)}, to_block : {None, Some(MaxTip + 1)},
     blocks : {0, MaxBlocksArg}, max_logs : 0..MaxMaxLogs,
     topic0 : {None, Some(ToHex(TopicA))}, address_ok : BOOLEAN]

InitWith(argSpace, tips, ch) ==
    /\ pc = "parse"
    /\ args \in argSpace
    /\ chainTip \in tips
    /\ chain = ch
    /\ connTip = None
    /\ tip = None
    /\ from_block = None
    /\ to_block = None
    /\ latest = None
    /\ params = Absent
    /\ received = <<>>
    /\ snapshot = Absent
    /\ payload = Absent

Init == InitWith(ArgSpace, Tips, SmallChain)

InitLogs == InitWith(ArgSpaceLogs, {MaxTip - 1, MaxTip}, NodeLogs)

\* -------------------------------------------------------------- actions
\* main(): --blocks <= 0 is rejected before any network access.
CheckArgs ==
    /\ pc = "parse"
    /\ pc' = IF args.blocks <= 0 THEN "exit1" ELSE "connect"
    /\ UNCHANGED <<args, chainTip, chain, connTip, tip, from_block, to_block,
                   latest, params, received, snapshot, payload>>

\* connect(): chain id and tip are read for the banner only; a failure of
\* that read is swallowed.
Connect ==
    /\ pc = "connect"
    /\ \E info \in BOOLEAN : connTip' = IF info THEN Some(chainTip) ELSE None
    /\ pc' = "resolve"
    /\ UNCHANGED <<args, chainTip, chain, tip, from_block, to_block, latest,
                   params, received, snapshot, payload>>

\* connect(): is_connected() is false.
ConnectFail ==
    /\ pc = "connect"
    /\ pc' = "exit1"
    /\ UNCHANGED <<args, chainTip, chain, connTip, tip, from_block, to_block,
                   latest, params, received, snapshot, payload>>

\* main(): reads the tip and resolves the range.
Resolve ==
    /\ pc = "resolve"
    /\ tip' = Some(chainTip)
    /\ from_block' = Some(ResolveRange(args, chainTip).from_block)
    /\ to_block' = Some(ResolveRange(args, chainTip).to_block)
    /\ pc' = "fetch"
    /\ UNCHANGED <<args, chainTip, chain, connTip, latest, params, received,
                   snapshot, payload>>

\* fetch_logs() up to the get_logs call: swap, normalize_address (which
\* raises on a bad address), read the tip again, clamp, build the filter.
FetchLogsPrepare ==
    /\ pc = "fetch"
    /\ IF args.address_ok
       THEN /\ latest' = Some(chainTip)
            /\ params' = BuildParams(Val(from_block), Val(to_block), chainTip,
                                     args.topic0)
            /\ pc' = "get_logs"
       ELSE /\ pc' = "crashed"
            /\ UNCHANGED <<latest, params>>
    /\ UNCHANGED <<args, chainTip, chain, connTip, tip, from_block, to_block,
                   received, snapshot, payload>>

\* fetch_logs(): the node answers, in an order of its choosing; the rest of
\* fetch_logs() runs on the answer.
GetLogs ==
    /\ pc = "get_logs"
    /\ \E response \in Batches(Matching(chain, params)) :
          /\ received' = response
          /\ snapshot' = BuildSnapshot(params, response, args.max_logs, args.topic0)
    /\ pc' = "emit"
    /\ UNCHANGED <<args, chainTip, chain, connTip, tip, from_block, to_block,
                   latest, params, payload>>

\* fetch_logs(): get_logs raises.
GetLogsFail ==
    /\ pc = "get_logs"
    /\ pc' = "exit1"
    /\ UNCHANGED <<args, chainTip, chain, connTip, tip, from_block, to_block,
                   latest, params, received, snapshot, payload>>

\* main(): wraps the snapshot and prints it.
Emit ==
    /\ pc = "emit"
    /\ payload' = [mode |-> "zk_bridge_events_snapshot", data |-> snapshot]
    /\ pc' = "done"
    /\ UNCHANGED <<args, chainTip, chain, connTip, tip, from_block, to_block,
                   latest, params, received, snapshot>>

\* The node's tip moves (a new block, a reorganisation, another backend of
\* the provider) while the program still has a tip to read.
ChainTick ==
    /\ pc \in {"connect", "resolve", "fetch"}
    /\ \E t \in Tips : /\ t \in {chainTip - 1, chainTip + 1}
                       /\ chainTip' = t
    /\ UNCHANGED <<pc, args, chain, connTip, tip, from_block, to_block, latest,
                   params, received, snapshot, payload>>

Next ==
    \/ CheckArgs
    \/ Connect
    \/ ConnectFail
    \/ Resolve
    \/ FetchLogsPrepare
    \/ GetLogs
    \/ GetLogsFail
    \/ Emit
    \/ ChainTick

Spec == Init /\ [][Next]_vars

SpecLogs == InitLogs /\ [][Next]_vars

\* =============================================================== claims
\* fetch_logs() has returned a snapshot.
Returned == pc \in {"emit", "done"}

\* fetch_logs() has built the get_logs filter.
Prepared == latest # None

\* The response was longer than a positive --max-logs.
Truncated(response, max_logs) == max_logs > 0 /\ Len(response) > max_logs

\* The records kept by the truncation rule, stated on the response itself.
Kept == IF Truncated(received, args.max_logs)
        THEN [i \in 1..args.max_logs |-> received[i]]
        ELSE received

Count(s, x) == Cardinality({ i \in 1..Len(s) : s[i] = x })

SameBag(s, t) ==
    /\ Len(s) = Len(t)
    /\ \A i \in 1..Len(s) : Count(s, s[i]) = Count(t, s[i])

SameKey(x, y) ==
    /\ x.blockNumber = y.blockNumber
    /\ x.transactionHash = y.transactionHash
    /\ x.logIndex = y.logIndex

DistinctKeys(s) == \A i, j \in 1..Len(s) : i # j => ~SameKey(s[i], s[j])

Reorderings(s) ==
    { [i \in 1..Len(s) |-> s[f[i]]] : f \in Permutations(1..Len(s)) }

SameLogsAndCommitment(response) ==
    LET other == BuildSnapshot(params, response, args.max_logs, args.topic0)
    IN  /\ other.logs = snapshot.logs
        /\ other.meta.commitmentKeccak = snapshot.meta.commitmentKeccak

\* C1 (as stated): without truncation, every reordering of the response gives
\* the same logs sequence and the same commitmentKeccak.
OrderIndependence ==
    (Returned /\ ~Truncated(received, args.max_logs))
        => \A r \in Reorderings(received) : SameLogsAndCommitment(r)

\* C1 (amended): without truncation, and when no two records of the response
\* share the key (blockNumber, transactionHash, logIndex), every reordering of
\* the response gives the same logs sequence and the same commitmentKeccak.
OrderIndependenceDistinctKeys ==
    (Returned /\ ~Truncated(received, args.max_logs) /\ DistinctKeys(received))
        => \A r \in Reorderings(received) : SameLogsAndCommitment(r)

\* C1 witness: three records with distinct keys arrived out of key order and
\* none was dropped.
OrderIndependenceWitness ==
    /\ Returned
    /\ ~Truncated(received, args.max_logs)
    /\ DistinctKeys(received)
    /\ Len(received) >= 3
    /\ snapshot.logs # NormalizeAll(received)

Ascending(logs) == \A i \in 1..(Len(logs) - 1) : ~KeyLess(logs[i + 1], logs[i])

\* C2: logCount is the length of the returned logs, commitmentKeccak is the
\* hash of the canonical encoding of the returned logs, and the returned logs
\* are the kept records, all of them and no dropped one, in sorted order.
SnapshotCommitsToLogs ==
    Returned =>
        /\ snapshot.meta.logCount = Len(snapshot.logs)
        /\ snapshot.meta.commitmentKeccak = Keccak(Encode(snapshot.logs))
        /\ SameBag(snapshot.logs, NormalizeAll(Kept))
        /\ Ascending(snapshot.logs)
        /\ payload # Absent => payload.data = snapshot

\* C2 witness: a truncated response whose kept records had to be reordered.
SnapshotCommitsToLogsWitness ==
    /\ pc = "done"
    /\ Truncated(received, args.max_logs)
    /\ snapshot.meta.logCount >= 2
    /\ snapshot.logs # NormalizeAll(Kept)

\* C3: with maxLogs > 0 and more than maxLogs records received, the kept
\* records are the first maxLogs in arrival order and logCount = maxLogs;
\* otherwise every received record is kept and logCount is their number.
PrefixTruncation ==
    Returned =>
        IF args.max_logs > 0 /\ Len(received) > args.max_logs
        THEN /\ SameBag(snapshot.logs,
                        NormalizeAll(SubSeq(received, 1, args.max_logs)))
             /\ snapshot.meta.logCount = args.max_logs
        ELSE /\ SameBag(snapshot.logs, NormalizeAll(received))
             /\ snapshot.meta.logCount = Len(received)

\* C3 witness: a record that sorts before every kept record arrived too late
\* and was dropped.
PrefixTruncationWitness ==
    /\ Returned
    /\ args.max_logs > 0
    /\ Len(received) > args.max_logs
    /\ \E i \in (args.max_logs + 1)..Len(received) :
          KeyLess(Normalize(received[i]), snapshot.logs[1])

KeyClass(s, x) == SelectSeq(s, LAMBDA y : SameKey(x, y))

\* C4: the returned logs are a permutation of the kept records, ascending in
\* (blockNumber, transactionHash, logIndex), and records with equal keys keep
\* their arrival order.
CanonicalSort ==
    Returned =>
        /\ SameBag(snapshot.logs, NormalizeAll(Kept))
        /\ \A i \in 1..(Len(snapshot.logs) - 1) :
              \/ KeyLess(snapshot.logs[i], snapshot.logs[i + 1])
              \/ SameKey(snapshot.logs[i], snapshot.logs[i + 1])
        /\ \A i \in 1..Len(snapshot.logs) :
              KeyClass(snapshot.logs, snapshot.logs[i])
                  = KeyClass(NormalizeAll(Kept), snapshot.logs[i])

\* C4 witness: two kept records share a key and a record that sorts before
\* them arrived after them.
CanonicalSortWitness ==
    /\ Returned
    /\ \E i, j \in 1..Len(Kept) : i < j /\ SameKey(Kept[i], Kept[j])
    /\ snapshot.logs # NormalizeAll(Kept)
    /\ Len(Kept) >= 3

OnlyFrom == ~IsNone(args.from_block) /\ IsNone(args.to_block)
OnlyTo == IsNone(args.from_block) /\ ~IsNone(args.to_block)
Resolved == tip # None

\* C5 (as stated): with one bound given the other is derived from it and
\* --blocks; in particular with only fromBlock, toBlock = fromBlock+blocks-1.
OneBoundDerivedFromGiven ==
    Resolved =>
        /\ OnlyTo => /\ Val(to_block) = Val(args.to_block)
                     /\ Val(from_block)
                            = Max(0, Val(args.to_block) - args.blocks + 1)
        /\ OnlyFrom => /\ Val(from_block) = Val(args.from_block)
                       /\ Val(to_block)
                              = Val(args.from_block) + args.blocks - 1

\* C5 (amended): with only toBlock given, fromBlock = max(0, toBlock-blocks+1);
\* with only fromBlock given, toBlock is the tip main() has read.
OneBoundResolution ==
    Resolved =>
        /\ OnlyTo => /\ Val(to_block) = Val(args.to_block)
                     /\ Val(from_block)
                            = Max(0, Val(args.to_block) - args.blocks + 1)
        /\ OnlyFrom => /\ Val(from_block) = Val(args.from_block)
                       /\ Val(to_block) = Val(tip)

\* C5 witness: only fromBlock was given and the tip is not fromBlock+blocks-1.
OneBoundResolutionWitness ==
    /\ Resolved
    /\ OnlyFrom
    /\ Val(tip) # Val(args.from_block) + args.blocks - 1

\* C6: the toBlock passed to get_logs and recorded as toBlockRequested never
\* exceeds the tip fetch_logs() has read.
ToBlockClamped ==
    /\ Prepared => params.toBlock <= Val(latest)
    /\ Returned => snapshot.meta.toBlockRequested <= Val(latest)

\* C6 witness: the bounds were supplied inverted and both beyond the tip.
ToBlockClampedWitness ==
    /\ Returned
    /\ ~IsNone(args.from_block)
    /\ ~IsNone(args.to_block)
    /\ Val(args.from_block) > Val(args.to_block)
    /\ Val(args.to_block) > Val(latest)

\* C7: the range passed to get_logs and recorded as requested always has
\* fromBlock <= toBlock.
RangeOrdered ==
    /\ Prepared => params.fromBlock <= params.toBlock
    /\ Returned =>
          snapshot.meta.fromBlockRequested <= snapshot.meta.toBlockRequested

KeptBlocks == { Kept[i].blockNumber : i \in 1..Len(Kept) }

\* C8: with records kept, the effective range is the least and the greatest
\* blockNumber among them; with none kept it is the requested range.
EffectiveRange ==
    Returned =>
        LET m == snapshot.meta
        IN  IF Len(Kept) > 0
            THEN /\ m.fromBlockEffective \in KeptBlocks
                 /\ m.toBlockEffective \in KeptBlocks
                 /\ \A b \in KeptBlocks :
                       m.fromBlockEffective <= b /\ b <= m.toBlockEffective
                 /\ m.fromBlockEffective <= m.toBlockEffective
            ELSE /\ m.fromBlockEffective = m.fromBlockRequested
                 /\ m.toBlockEffective = m.toBlockRequested
                 /\ m.fromBlockRequested = params.fromBlock
                 /\ m.toBlockRequested = params.toBlock

\* C8 witness: the kept records span two blocks, the first kept is not in the
\* lowest of them.
EffectiveRangeWitness ==
    /\ Returned
    /\ Cardinality(KeptBlocks) >= 2
    /\ \E b \in KeptBlocks : b < Kept[1].blockNumber

\* One whole run as a function of its inputs: the command line, the tips
\* read by main() and by fetch_logs(), and the node's response.
RunParams(a, t1, t2) ==
    BuildParams(ResolveRange(a, t1).from_block, ResolveRange(a, t1).to_block,
                t2, a.topic0)

TipClamped(a, t1, t2) ==
    SwapIfInverted(ResolveRange(a, t1).from_block,
                   ResolveRange(a, t1).to_block).to_block > t2

OtherArgs == { [args EXCEPT !.to_block = tb] : tb \in OptBlocks }

\* C9: a run in which truncation (or tip clamping) occurred and a run in
\* which it did not never produce the same snapshot metadata.
DegradationsDetectable ==
    Returned =>
        \A a \in OtherArgs :
            \A r \in Batches(Matching(chain, RunParams(a, Val(tip), Val(latest)))) :
                LET other == BuildSnapshot(RunParams(a, Val(tip), Val(latest)),
                                           r, a.max_logs, a.topic0)
                IN  (\/ Truncated(r, a.max_logs)
                            # Truncated(received, args.max_logs)
                     \/ TipClamped(a, Val(tip), Val(latest))
                            # TipClamped(args, Val(tip), Val(latest)))
                        => other.meta # snapshot.meta

\* C10: the tip used to clamp toBlock is the tip used to resolve the range.
TipReadOnce == Prepared => Val(latest) = Val(tip)

====
